---------------------------- MODULE Spec2Model ----------------------------
(***************************************************************************)
(* State-machine model of the cdmenu settings window (src/src/main.js):    *)
(* the DOMContentLoaded initialisation chain, the credential form, the     *)
(* cascading selectors, the monitored-pipeline list, the polling-interval  *)
(* setting and the status panel fed by the polling engine.                 *)
(*                                                                         *)
(* Text that the code inspects character by character (input fields that   *)
(* are trimmed or parsed) is a sequence of one-character strings; slugs,   *)
(* keys and names that the code only compares are atomic strings, with ""  *)
(* the empty string.  A pending invoke() is a record in a collection of    *)
(* calls in flight; its resolution or rejection is a separate step.        *)
(***************************************************************************)
EXTENDS Integers, Sequences, FiniteSets, Bags, TLC

(***************************************************************************)
(* Bounds of the model.                                                    *)
(***************************************************************************)
\* longest text typed into the polling-interval field
MaxInputLen == 2
\* set_polling_interval invocations in flight
MaxSettingsCalls == 1
\* 'status-updated' events emitted and not yet handled by the listener
MaxEvents == 1
\* trigger_refresh invocations in flight
MaxRefresh == 2
\* longest text typed into a credential field
MaxCredLen == 1
\* save_monitored_pipelines invocations in flight
MaxSaves == 2
\* get_workspaces / get_projects / get_repositories* invocations in flight
MaxFetch == 1
\* pending fetches started by the select change handlers
MaxSelectorFetch == 2
\* entries of monitoredPipelines up to which the selects' Add button is clicked
MaxMonitored == 1

VARIABLES
    \* ---- main.js module state (lines 9-15)
    currentUsername, currentAppPassword,
    workspaces, projects, repositories,
    monitoredPipelines, currentWorkspace,
    \* ---- DOM
    usernameInput, appPasswordInput, authStatus, saveAuthBtn,
    workspaceSelect, projectSelect, repoSelect, addPipelineBtnDisabled,
    pipelineList, pollingIntervalInput,
    statusDetails, statusIndicator, notification,
    \* ---- control: position in the DOMContentLoaded handler, listeners,
    \* ---- the loader whose guard ended the most recent loader call
    initPc, statusResp, listening, returnedEarly,
    \* ---- invoke() calls in flight
    credCalls, fetchCalls, saveCalls, settingsCalls, refreshSent, refreshHandled,
    \* ---- backend reached through invoke()/listen()
    storedUsername, storedPassword, persistedPipelines, storedInterval,
    latestStatus, events, ticksInFlight, manualPending, engineConfigured

credVars == <<currentUsername, currentAppPassword, usernameInput, appPasswordInput,
              authStatus, saveAuthBtn, credCalls, storedUsername, storedPassword>>
selVars == <<workspaces, projects, repositories, currentWorkspace, workspaceSelect,
             projectSelect, repoSelect, addPipelineBtnDisabled, fetchCalls, returnedEarly>>
pipeVars == <<monitoredPipelines, pipelineList, saveCalls, persistedPipelines>>
settingsVars == <<pollingIntervalInput, settingsCalls, storedInterval>>
displayVars == <<statusDetails, statusIndicator>>
engineVars == <<latestStatus, events, ticksInFlight, manualPending, engineConfigured>>
statusVars == <<displayVars, statusResp, listening, refreshSent, refreshHandled, engineVars>>
vars == <<credVars, selVars, pipeVars, settingsVars, statusVars, notification, initPc>>

(***************************************************************************)
(* Generic helpers.                                                        *)
(***************************************************************************)
\* all sequences over S of length at most n
SeqsUpTo(S, n) == UNION {[1..k -> S] : k \in 0..n}

\* the sequence s without its i-th element (identity when i is out of range)
RemoveAt(s, i) == [k \in 1..(Len(s) - (IF i \in 1..Len(s) THEN 1 ELSE 0)) |->
                      IF k < i THEN s[k] ELSE s[k + 1]]

\* JavaScript null where the code stores or tests it
Null == [null |-> TRUE]

(***************************************************************************)
(* showNotification: a single .notification element, replaced by each call *)
(* and removed by its own timer after 3 s.                                 *)
(***************************************************************************)
NoNotification == [message |-> "", type |-> "none"]

showNotification(message, type) == [message |-> message, type |-> type]

NotificationTimeout ==
    /\ notification # NoNotification
    /\ notification' = NoNotification
    /\ UNCHANGED <<credVars, selVars, pipeVars, settingsVars, statusVars, initPc>>

(***************************************************************************)
(* parseInt(text, 10) on a sequence of characters.                         *)
(***************************************************************************)
Digits == {"0", "1", "2", "3", "4", "5", "6", "7", "8", "9"}

DigitVal(c) ==
    CASE c = "0" -> 0 [] c = "1" -> 1 [] c = "2" -> 2 [] c = "3" -> 3
      [] c = "4" -> 4 [] c = "5" -> 5 [] c = "6" -> 6 [] c = "7" -> 7
      [] c = "8" -> 8 [] c = "9" -> 9

\* a JavaScript number as far as saveSettings needs it: NaN or an integer
NaN == [nan |-> TRUE, n |-> 0]
Num(k) == [nan |-> FALSE, n |-> k]

RECURSIVE StripLeadingSpace(_)
StripLeadingSpace(s) ==
    IF s # <<>> /\ Head(s) = " " THEN StripLeadingSpace(Tail(s)) ELSE s

\* value of the longest prefix of digits of s, continuing from acc
RECURSIVE DigitPrefix(_, _)
DigitPrefix(s, acc) ==
    IF s # <<>> /\ Head(s) \in Digits
    THEN DigitPrefix(Tail(s), 10 * acc + DigitVal(Head(s)))
    ELSE acc

\* parseInt: leading white space skipped, an optional sign, then the longest
\* run of digits; NaN when there is no digit at that place
ParseInt(text) ==
    LET s == StripLeadingSpace(text)
        neg == s # <<>> /\ Head(s) = "-"
        body == IF s # <<>> /\ Head(s) \in {"-", "+"} THEN Tail(s) ELSE s
    IN  IF body = <<>> \/ Head(body) \notin Digits
        THEN NaN
        ELSE Num((IF neg THEN -1 ELSE 1) * DigitPrefix(body, 0))

\* JavaScript x < k for a number x: false when x is NaN
LessThan(x, k) == ~x.nan /\ x.n < k

\* String(n) for a non-negative integer, as assigned to an input's value
RECURSIVE NumberToText(_)
NumberToText(n) ==
    LET d == CHOOSE c \in Digits : DigitVal(c) = n % 10
    IN  IF n < 10 THEN <<d>> ELSE Append(NumberToText(n \div 10), d)

(***************************************************************************)
(* Polling interval: loadPollingInterval and saveSettings.                 *)
(***************************************************************************)
\* characters a user may type into the interval field
IntervalChars == {"0", "3", "9", "a", "-", " "}
IntervalTexts == SeqsUpTo(IntervalChars, MaxInputLen)

\* the floor saveSettings compares against
MinPollingInterval == 30

\* the user edits the polling-interval field
UserTypesInterval ==
    /\ initPc = "done"
    /\ \E text \in IntervalTexts :
         /\ text # pollingIntervalInput
         /\ pollingIntervalInput' = text
    /\ UNCHANGED <<credVars, selVars, pipeVars, settingsCalls, storedInterval,
                   statusVars, notification, initPc>>

\* click on #save-settings-btn: saveSettings up to its await
saveSettings ==
    /\ initPc = "done"
    /\ LET interval == ParseInt(pollingIntervalInput)
       IN  IF LessThan(interval, MinPollingInterval)
           THEN /\ notification' =
                     showNotification("Interval must be at least 30 seconds", "error")
                /\ UNCHANGED settingsCalls
           ELSE /\ Len(settingsCalls) < MaxSettingsCalls
                /\ settingsCalls' = Append(settingsCalls, interval)
                /\ UNCHANGED notification
    /\ UNCHANGED <<credVars, selVars, pipeVars, pollingIntervalInput, storedInterval,
                   statusVars, initPc>>

\* set_polling_interval resolves: the backend stores an integer argument
SetPollingIntervalResolve ==
    /\ \E i \in 1..Len(settingsCalls) :
         /\ ~settingsCalls[i].nan
         /\ storedInterval' = settingsCalls[i].n
         /\ settingsCalls' = RemoveAt(settingsCalls, i)
    /\ notification' = showNotification("Settings saved!", "success")
    /\ UNCHANGED <<credVars, selVars, pipeVars, pollingIntervalInput, statusVars, initPc>>

\* set_polling_interval rejects: the catch branch
SetPollingIntervalReject ==
    /\ \E i \in 1..Len(settingsCalls) : settingsCalls' = RemoveAt(settingsCalls, i)
    /\ notification' = showNotification("Failed to save settings", "error")
    /\ UNCHANGED <<credVars, selVars, pipeVars, pollingIntervalInput, storedInterval,
                   statusVars, initPc>>

\* loadPollingInterval after get_polling_interval resolved
LoadPollingIntervalResolve ==
    /\ initPc = "get_polling_interval"
    /\ pollingIntervalInput' = NumberToText(storedInterval)
    /\ initPc' = "get_pipeline_statuses"
    /\ UNCHANGED <<credVars, selVars, pipeVars, settingsCalls, storedInterval,
                   statusVars, notification>>

\* loadPollingInterval when get_polling_interval rejected: logged only
LoadPollingIntervalReject ==
    /\ initPc = "get_polling_interval"
    /\ initPc' = "get_pipeline_statuses"
    /\ UNCHANGED <<credVars, selVars, pipeVars, settingsVars, statusVars, notification>>

(***************************************************************************)
(* Status panel: updateStatusDisplay, loadCurrentStatus, the               *)
(* 'status-updated' listener and the Refresh button.                       *)
(***************************************************************************)
\* failed_pipelines entries of a snapshot; repo_name may be empty
FailedA == [repo_name |-> "Api", repo_slug |-> "api", failure_reason |-> "step 2 exited 1"]
FailedB == [repo_name |-> "", repo_slug |-> "web", failure_reason |-> "timeout"]

Snapshot(healthy, inProgress, failed) ==
    [is_healthy |-> healthy, total_monitored |-> 2, in_progress_count |-> inProgress,
     failed_pipelines |-> failed, last_checked |-> "12:00"]

\* payloads of get_pipeline_statuses and of 'status-updated'
Snapshots ==
    {Snapshot(TRUE, 0, <<>>), Snapshot(TRUE, 1, <<FailedA>>),
     Snapshot(FALSE, 0, <<>>), Snapshot(FALSE, 0, <<FailedA>>),
     Snapshot(FALSE, 1, <<FailedA, FailedB>>), Snapshot(FALSE, 0, <<FailedB, FailedA>>)}

\* a || b on strings
OrElse(a, b) == IF a # "" THEN a ELSE b

\* the markup of the panel before any script wrote to it
InitialDetails == [kind |-> "initial"]
InitialIndicator == "initial"
\* '<p class="loading">Refreshing...</p>'
RefreshingDetails == [kind |-> "refreshing"]

\* one <li> of the failed list
FailedItem(p) == <<OrElse(p.repo_name, p.repo_slug), p.failure_reason>>

\* the <li> elements of the failed list: failed_pipelines.map(...), in order
FailedItemsReversed(failed) ==
    [i \in 1..Len(failed) |-> FailedItem(failed[Len(failed) + 1 - i])]

FailedItems(failed) == [i \in 1..Len(failed) |-> FailedItem(failed[i])]

\* a display that derives the indicator from the failed list, not is_healthy
updateStatusDisplayByFailedList(status) ==
    IF status = Null
    THEN [indicator |-> "status-gray", details |-> [kind |-> "none"]]
    ELSE [indicator |-> IF status.failed_pipelines = <<>>
                        THEN "status-green" ELSE "status-red",
          details |->
            IF status.failed_pipelines = <<>>
            THEN [kind |-> "healthy",
                  total |-> status.total_monitored,
                  in_progress |-> IF status.in_progress_count > 0
                                  THEN <<status.in_progress_count>> ELSE <<>>,
                  last_checked |-> status.last_checked]
            ELSE [kind |-> "failed",
                  count |-> Len(status.failed_pipelines),
                  items |-> FailedItems(status.failed_pipelines),
                  last_checked |-> status.last_checked]]

\* updateStatusDisplay(status): the indicator class and the panel content
updateStatusDisplay(status) ==
    IF status = Null
    THEN [indicator |-> "status-gray", details |-> [kind |-> "none"]]
    ELSE [indicator |-> IF status.is_healthy THEN "status-green" ELSE "status-red",
          details |->
            IF status.is_healthy
            THEN [kind |-> "healthy",
                  total |-> status.total_monitored,
                  in_progress |-> IF status.in_progress_count > 0
                                  THEN <<status.in_progress_count>> ELSE <<>>,
                  last_checked |-> status.last_checked]
            ELSE [kind |-> "failed",
                  count |-> Len(status.failed_pipelines),
                  items |-> FailedItems(status.failed_pipelines),
                  last_checked |-> status.last_checked]]

\* get_pipeline_statuses is served: the backend reads its latest aggregate
GetPipelineStatusesRead ==
    /\ initPc = "get_pipeline_statuses"
    /\ statusResp' = [kind |-> "value", status |-> latestStatus]
    /\ initPc' = "status_response"
    /\ UNCHANGED <<credVars, selVars, pipeVars, settingsVars, displayVars, listening,
                   refreshSent, refreshHandled, engineVars, notification>>

\* get_pipeline_statuses rejects
GetPipelineStatusesReject ==
    /\ initPc = "get_pipeline_statuses"
    /\ statusResp' = [kind |-> "error", status |-> Null]
    /\ initPc' = "status_response"
    /\ UNCHANGED <<credVars, selVars, pipeVars, settingsVars, displayVars, listening,
                   refreshSent, refreshHandled, engineVars, notification>>

\* loadCurrentStatus resumes with the response, then setupEventListeners()
\* and listenForStatusUpdates() run and the DOMContentLoaded handler ends
LoadCurrentStatusResume ==
    /\ initPc = "status_response"
    /\ IF statusResp.kind = "value" /\ statusResp.status # Null
       THEN /\ statusIndicator' = updateStatusDisplay(statusResp.status).indicator
            /\ statusDetails' = updateStatusDisplay(statusResp.status).details
       ELSE UNCHANGED displayVars
    /\ listening' = TRUE
    /\ initPc' = "done"
    /\ UNCHANGED <<credVars, selVars, pipeVars, settingsVars, statusResp,
                   refreshSent, refreshHandled, engineVars, notification>>

\* the 'status-updated' listener receives the oldest undelivered event
DeliverStatusEvent ==
    /\ listening
    /\ events # <<>>
    /\ statusIndicator' = updateStatusDisplay(Head(events)).indicator
    /\ statusDetails' = updateStatusDisplay(Head(events)).details
    /\ events' = Tail(events)
    /\ UNCHANGED <<credVars, selVars, pipeVars, settingsVars, statusResp, listening,
                   refreshSent, refreshHandled, latestStatus, ticksInFlight,
                   manualPending, engineConfigured, notification, initPc>>

\* click on #refresh-btn: the placeholder is written, trigger_refresh invoked
RefreshClick ==
    /\ initPc = "done"
    /\ refreshSent + refreshHandled < MaxRefresh
    /\ statusDetails' = RefreshingDetails
    /\ refreshSent' = refreshSent + 1
    /\ UNCHANGED <<credVars, selVars, pipeVars, settingsVars, statusIndicator,
                   statusResp, listening, refreshHandled, engineVars, notification,
                   initPc>>

\* trigger_refresh resolves: the click handler ends, nothing is written
TriggerRefreshResolve ==
    /\ refreshHandled > 0
    /\ refreshHandled' = refreshHandled - 1
    /\ UNCHANGED <<credVars, selVars, pipeVars, settingsVars, displayVars, statusResp,
                   listening, refreshSent, engineVars, notification, initPc>>

\* trigger_refresh rejects: the handler has no catch, nothing is written
TriggerRefreshReject ==
    /\ refreshSent > 0
    /\ refreshSent' = refreshSent - 1
    /\ UNCHANGED <<credVars, selVars, pipeVars, settingsVars, displayVars, statusResp,
                   listening, refreshHandled, engineVars, notification, initPc>>

(***************************************************************************)
(* The polling engine behind trigger_refresh and 'status-updated'.         *)
(***************************************************************************)
\* the scheduler's timer fires: a tick starts unless one is in flight; a
\* tick of an unconfigured engine is aborted before fetching
TickStart ==
    /\ engineConfigured
    /\ ticksInFlight = 0
    /\ ticksInFlight' = 1
    /\ manualPending' = FALSE
    /\ UNCHANGED <<credVars, selVars, pipeVars, settingsVars, displayVars, statusResp,
                   listening, refreshSent, refreshHandled, latestStatus, events,
                   engineConfigured, notification, initPc>>

\* a manual trigger that starts a tick whether or not one is in flight
TriggerManualTickUnserialised ==
    /\ refreshSent > 0
    /\ refreshSent' = refreshSent - 1
    /\ refreshHandled' = refreshHandled + 1
    /\ IF ~engineConfigured
       THEN UNCHANGED ticksInFlight
       ELSE ticksInFlight' = ticksInFlight + 1
    /\ UNCHANGED <<credVars, selVars, pipeVars, settingsVars, displayVars, statusResp,
                   listening, latestStatus, events, engineConfigured, notification,
                   initPc, manualPending>>

\* triggerManualTick(): run at once, coalesce into the tick in flight, or
\* abort when nothing can be fetched
TriggerManualTick ==
    /\ refreshSent > 0
    /\ refreshSent' = refreshSent - 1
    /\ refreshHandled' = refreshHandled + 1
    /\ IF ~engineConfigured
       THEN UNCHANGED <<ticksInFlight, manualPending>>
       ELSE IF ticksInFlight = 0
            THEN ticksInFlight' = ticksInFlight + 1 /\ UNCHANGED manualPending
            ELSE manualPending' = TRUE /\ UNCHANGED ticksInFlight
    /\ UNCHANGED <<credVars, selVars, pipeVars, settingsVars, displayVars, statusResp,
                   listening, latestStatus, events, engineConfigured, notification,
                   initPc>>

\* a remembered manual request is consumed once no tick is in flight
ManualTickStart ==
    /\ manualPending
    /\ ticksInFlight = 0
    /\ manualPending' = FALSE
    /\ ticksInFlight' = IF engineConfigured THEN 1 ELSE 0
    /\ UNCHANGED <<credVars, selVars, pipeVars, settingsVars, displayVars, statusResp,
                   listening, refreshSent, refreshHandled, latestStatus, events,
                   engineConfigured, notification, initPc>>

\* a tick completes: the aggregate is replaced and broadcast to the
\* subscribers registered at that moment
TickFinish ==
    /\ ticksInFlight > 0
    /\ listening => Len(events) < MaxEvents
    /\ \E s \in Snapshots :
         /\ latestStatus' = s
         /\ events' = IF listening THEN Append(events, s) ELSE events
    /\ ticksInFlight' = ticksInFlight - 1
    /\ UNCHANGED <<credVars, selVars, pipeVars, settingsVars, displayVars, statusResp,
                   listening, refreshSent, refreshHandled, manualPending,
                   engineConfigured, notification, initPc>>

\* the configuration collaborator gains or loses what a tick needs
\* (credentials, monitored targets)
ConfigurationChange ==
    /\ engineConfigured' = ~engineConfigured
    /\ UNCHANGED <<credVars, selVars, pipeVars, settingsVars, displayVars, statusResp,
                   listening, refreshSent, refreshHandled, latestStatus, events,
                   ticksInFlight, manualPending, notification, initPc>>

(***************************************************************************)
(* Credentials: loadSavedCredentials and saveCredentials.                  *)
(***************************************************************************)
\* String.prototype.trim on a sequence of characters
RECURSIVE StripTrailingSpace(_)
StripTrailingSpace(s) ==
    IF s # <<>> /\ s[Len(s)] = " "
    THEN StripTrailingSpace(SubSeq(s, 1, Len(s) - 1))
    ELSE s

Trim(s) == StripTrailingSpace(StripLeadingSpace(s))

\* texts a user may type into the username and the app-password field
UsernameTexts == SeqsUpTo({" ", "u"}, MaxCredLen)
PasswordTexts == {<<>>, <<"p">>, <<"p", " ">>}

NoAuthStatus == [message |-> "", type |-> "hidden"]
showAuthStatus(message, type) == [message |-> message, type |-> type]

\* #save-auth-btn: .btn-loading shown instead of .btn-text, and disabled
ButtonIdle == [loading |-> FALSE, disabled |-> FALSE]
ButtonLoading == [loading |-> TRUE, disabled |-> TRUE]

\* a guard that lets a loader through as soon as one credential is set
MissingBothCredentials(username, appPassword) == username = <<>> /\ appPassword = <<>>

\* the guard of the four loaders: !currentUsername || !currentAppPassword
MissingCredentials(username, appPassword) == username = <<>> \/ appPassword = <<>>

\* invoke('get_workspaces', {username, appPassword}) by loadWorkspaces, resumed
\* in caller cont
GetWorkspacesCall(username, appPassword, cont) ==
    [cmd |-> "get_workspaces", username |-> username, appPassword |-> appPassword,
     workspace |-> "", projectKey |-> "", cont |-> cont]

\* get_credentials resolves inside loadSavedCredentials
GetCredentialsResolve ==
    /\ initPc = "get_credentials"
    /\ IF storedUsername # <<>>
       THEN /\ usernameInput' = storedUsername
            /\ currentUsername' = storedUsername
            /\ initPc' = "get_app_password"
       ELSE /\ UNCHANGED <<usernameInput, currentUsername>>
            /\ initPc' = "get_monitored_pipelines"
    /\ UNCHANGED <<currentAppPassword, appPasswordInput, authStatus, saveAuthBtn,
                   credCalls, storedUsername, storedPassword, selVars, pipeVars,
                   settingsVars, statusVars, notification>>

\* get_credentials or get_app_password rejects: logged, loadSavedCredentials ends
LoadSavedCredentialsReject ==
    /\ initPc \in {"get_credentials", "get_app_password"}
    /\ initPc' = "get_monitored_pipelines"
    /\ UNCHANGED <<credVars, selVars, pipeVars, settingsVars, statusVars, notification>>

\* get_app_password resolves; with a password, loadWorkspaces is awaited
GetAppPasswordResolve ==
    /\ initPc = "get_app_password"
    /\ IF storedPassword # <<>>
       THEN /\ currentAppPassword' = storedPassword
            /\ appPasswordInput' = [appPasswordInput EXCEPT !.masked = TRUE]
            /\ authStatus' = showAuthStatus("Credentials saved", "success")
            /\ IF MissingCredentials(currentUsername, storedPassword)
               THEN /\ UNCHANGED fetchCalls
                    /\ returnedEarly' = "loadWorkspaces"
                    /\ initPc' = "get_monitored_pipelines"
               ELSE /\ fetchCalls' = fetchCalls (+) SetToBag(
                          {GetWorkspacesCall(currentUsername, storedPassword, "init")})
                    /\ returnedEarly' = "none"
                    /\ initPc' = "get_workspaces"
       ELSE /\ UNCHANGED <<currentAppPassword, appPasswordInput, authStatus,
                           fetchCalls, returnedEarly>>
            /\ initPc' = "get_monitored_pipelines"
    /\ UNCHANGED <<currentUsername, usernameInput, saveAuthBtn, credCalls,
                   storedUsername, storedPassword, workspaces, projects, repositories,
                   currentWorkspace, workspaceSelect, projectSelect, repoSelect,
                   addPipelineBtnDisabled, pipeVars, settingsVars, statusVars,
                   notification>>

\* the user edits the username field
UserTypesUsername ==
    /\ initPc = "done"
    /\ \E u \in UsernameTexts :
         /\ u # usernameInput
         /\ usernameInput' = u
    /\ UNCHANGED <<currentUsername, currentAppPassword, appPasswordInput, authStatus,
                   saveAuthBtn, credCalls, storedUsername, storedPassword, selVars,
                   pipeVars, settingsVars, statusVars, notification, initPc>>

\* the user edits the app-password field
UserTypesPassword ==
    /\ initPc = "done"
    /\ \E p \in PasswordTexts :
         /\ p # appPasswordInput.value
         /\ appPasswordInput' = [appPasswordInput EXCEPT !.value = p]
    /\ UNCHANGED <<currentUsername, currentAppPassword, usernameInput, authStatus,
                   saveAuthBtn, credCalls, storedUsername, storedPassword, selVars,
                   pipeVars, settingsVars, statusVars, notification, initPc>>

\* submit of #auth-form: saveCredentials up to its first await
saveCredentials ==
    /\ initPc = "done"
    /\ ~saveAuthBtn.disabled
    /\ LET username == Trim(usernameInput)
           appPassword == Trim(appPasswordInput.value)
       IN  IF username = <<>> \/ appPassword = <<>>
           THEN /\ authStatus' = showAuthStatus(
                       "Please enter both username and app password", "error")
                /\ UNCHANGED <<saveAuthBtn, credCalls>>
           ELSE /\ saveAuthBtn' = ButtonLoading
                /\ credCalls' = Append(credCalls,
                       [username |-> username, appPassword |-> appPassword])
                /\ UNCHANGED authStatus
    /\ UNCHANGED <<currentUsername, currentAppPassword, usernameInput,
                   appPasswordInput, storedUsername, storedPassword, selVars, pipeVars,
                   settingsVars, statusVars, notification, initPc>>

\* save_credentials resolves: the in-memory credentials are set, then
\* loadWorkspaces is awaited (or returns at once, and finally runs)
SaveCredentialsResolve ==
    /\ credCalls # <<>>
    /\ LET call == Head(credCalls)
       IN  /\ storedUsername' = call.username
           /\ storedPassword' = call.appPassword
           /\ currentUsername' = call.username
           /\ currentAppPassword' = call.appPassword
           /\ appPasswordInput' = [value |-> <<>>, masked |-> TRUE]
           /\ authStatus' = showAuthStatus("Credentials saved successfully!", "success")
           /\ IF MissingCredentials(call.username, call.appPassword)
              THEN /\ UNCHANGED fetchCalls
                   /\ returnedEarly' = "loadWorkspaces"
                   /\ saveAuthBtn' = ButtonIdle
              ELSE /\ BagCardinality(fetchCalls) < MaxFetch
                   /\ fetchCalls' = fetchCalls (+) SetToBag(
                         {GetWorkspacesCall(call.username, call.appPassword,
                                            "saveCredentials")})
                   /\ returnedEarly' = "none"
                   /\ UNCHANGED saveAuthBtn
    /\ credCalls' = Tail(credCalls)
    /\ UNCHANGED <<usernameInput, workspaces, projects, repositories, currentWorkspace,
                   workspaceSelect, projectSelect, repoSelect, addPipelineBtnDisabled,
                   pipeVars, settingsVars, statusVars, notification, initPc>>

\* a rejection handler for a saveCredentials that assigned the in-memory
\* credentials before awaiting save_credentials
SaveCredentialsRejectAssigned ==
    /\ credCalls # <<>>
    /\ credCalls' = Tail(credCalls)
    /\ currentUsername' = Head(credCalls).username
    /\ currentAppPassword' = Head(credCalls).appPassword
    /\ authStatus' = showAuthStatus("Error", "error")
    /\ saveAuthBtn' = ButtonIdle
    /\ UNCHANGED <<usernameInput, appPasswordInput, storedUsername, storedPassword,
                   selVars, pipeVars, settingsVars, statusVars, notification, initPc>>

\* save_credentials rejects: the error is shown and finally runs
SaveCredentialsReject ==
    /\ credCalls # <<>>
    /\ credCalls' = Tail(credCalls)
    /\ authStatus' = showAuthStatus("Error", "error")
    /\ saveAuthBtn' = ButtonIdle
    /\ UNCHANGED <<currentUsername, currentAppPassword, usernameInput,
                   appPasswordInput, storedUsername, storedPassword, selVars, pipeVars,
                   settingsVars, statusVars, notification, initPc>>

(***************************************************************************)
(* Cascading selectors: the four loaders and their responses.              *)
(***************************************************************************)
\* what the remote API returns; a name may be empty
RemoteWorkspaces == <<[slug |-> "w1", name |-> "One"], [slug |-> "w2", name |-> ""]>>

RemoteProjects(workspace) ==
    CASE workspace = "w1" -> <<[key |-> "PA", name |-> "Alpha"], [key |-> "PB", name |-> ""]>>
      [] workspace = "w2" -> <<[key |-> "PB", name |-> "Beta"]>>
      [] OTHER -> <<>>

RemoteRepositories(workspace, projectKey) ==
    CASE workspace = "w1" /\ projectKey = "PA" -> <<[slug |-> "r1", name |-> "Repo1"]>>
      [] workspace = "w1" /\ projectKey = "PB" -> <<[slug |-> "r2", name |-> ""]>>
      [] workspace = "w2" /\ projectKey = "PB" -> <<[slug |-> "r3", name |-> "Repo3"]>>
      [] OTHER -> <<>>

RemoteWorkspaceRepositories(workspace) ==
    CASE workspace = "w1" ->
             RemoteRepositories("w1", "PA") \o RemoteRepositories("w1", "PB")
      [] OTHER -> RemoteRepositories(workspace, "PB")

WorkspaceSlugs == {"w1"}
ProjectKeys == {"PA"}

\* a <select>: the text of its first, empty-valued option, the options after
\* it, the selected value and the disabled flag
\* select.innerHTML = '<option value="">text</option>'
ResetSelect(select, text) ==
    [select EXCEPT !.placeholder = text, !.options = <<>>, !.value = ""]

\* populateWorkspaceSelect / populateProjectSelect / populateRepoSelect
PopulateSelect(text, options) ==
    [placeholder |-> text, options |-> options, value |-> "", disabled |-> FALSE]

WorkspaceOptions(list) ==
    [i \in 1..Len(list) |->
        [value |-> list[i].slug, text |-> OrElse(list[i].name, list[i].slug)]]
ProjectOptions(list) ==
    [i \in 1..Len(list) |->
        [value |-> list[i].key, text |-> OrElse(list[i].name, list[i].key)]]

populateWorkspaceSelect(list) == PopulateSelect("Select Workspace", WorkspaceOptions(list))
populateProjectSelect(list) == PopulateSelect("Select Project", ProjectOptions(list))
populateRepoSelect(list) == PopulateSelect("Select Repository", WorkspaceOptions(list))

InitialSelect(text) ==
    [placeholder |-> text, options |-> <<>>, value |-> "", disabled |-> TRUE]

FetchCall(cmd, workspace, projectKey) ==
    [cmd |-> cmd, username |-> currentUsername, appPassword |-> currentAppPassword,
     workspace |-> workspace, projectKey |-> projectKey, cont |-> "none"]

\* loadWorkspaces() up to its await
loadWorkspaces ==
    /\ IF MissingCredentials(currentUsername, currentAppPassword)
       THEN returnedEarly' = "loadWorkspaces" /\ UNCHANGED fetchCalls
       ELSE /\ BagCardinality(fetchCalls) < MaxFetch
            /\ returnedEarly' = "none"
            /\ fetchCalls' = fetchCalls (+) SetToBag({FetchCall("get_workspaces", "", "")})
    /\ UNCHANGED <<projectSelect, repoSelect>>

\* loadProjects(workspace) up to its await
loadProjects(workspace) ==
    /\ IF MissingCredentials(currentUsername, currentAppPassword)
       THEN /\ returnedEarly' = "loadProjects"
            /\ UNCHANGED <<projectSelect, repoSelect, fetchCalls>>
       ELSE /\ returnedEarly' = "none"
            /\ projectSelect' =
                 [ResetSelect(projectSelect, "Loading...") EXCEPT !.disabled = TRUE]
            /\ repoSelect' =
                 [ResetSelect(repoSelect, "Select Repository") EXCEPT !.disabled = TRUE]
            /\ fetchCalls' = fetchCalls (+) SetToBag({FetchCall("get_projects", workspace, "")})

\* loadRepositoriesByProject(workspace, projectKey) up to its await
loadRepositoriesByProject(workspace, projectKey) ==
    /\ IF MissingCredentials(currentUsername, currentAppPassword)
       THEN /\ returnedEarly' = "loadRepositoriesByProject"
            /\ UNCHANGED <<repoSelect, fetchCalls>>
       ELSE /\ returnedEarly' = "none"
            /\ repoSelect' =
                 [ResetSelect(repoSelect, "Loading...") EXCEPT !.disabled = TRUE]
            /\ fetchCalls' = fetchCalls (+) SetToBag(
                   {FetchCall("get_repositories_by_project", workspace, projectKey)})

\* loadRepositories(workspace) up to its await
loadRepositories(workspace) ==
    /\ IF MissingCredentials(currentUsername, currentAppPassword)
       THEN /\ returnedEarly' = "loadRepositories"
            /\ UNCHANGED <<repoSelect, fetchCalls>>
       ELSE /\ BagCardinality(fetchCalls) < MaxFetch
            /\ returnedEarly' = "none"
            /\ repoSelect' =
                 [ResetSelect(repoSelect, "Loading...") EXCEPT !.disabled = TRUE]
            /\ fetchCalls' = fetchCalls (+) SetToBag({FetchCall("get_repositories", workspace, "")})
    /\ UNCHANGED projectSelect

\* what a loader leaves alone, whoever calls it
LoaderFrame ==
    UNCHANGED <<credVars, workspaces, projects, repositories, currentWorkspace,
                workspaceSelect, addPipelineBtnDisabled, pipeVars, settingsVars,
                statusVars, notification, initPc>>

\* the loaders entered in the current credential state, while fewer than
\* MaxFetch fetches are pending
LoadWorkspacesEntry == initPc = "done" /\ loadWorkspaces /\ LoaderFrame
LoadProjectsEntry ==
    /\ initPc = "done"
    /\ BagCardinality(fetchCalls) < MaxFetch
    /\ \E w \in WorkspaceSlugs : loadProjects(w)
    /\ LoaderFrame
LoadRepositoriesByProjectEntry ==
    /\ initPc = "done"
    /\ BagCardinality(fetchCalls) < MaxFetch
    /\ \E w \in WorkspaceSlugs, k \in ProjectKeys : loadRepositoriesByProject(w, k)
    /\ UNCHANGED projectSelect
    /\ LoaderFrame
LoadRepositoriesEntry ==
    initPc = "done" /\ (\E w \in WorkspaceSlugs : loadRepositories(w)) /\ LoaderFrame

\* the caller of loadWorkspaces resumes: the initialisation chain moves on,
\* saveCredentials runs its finally block
ResumeAfterLoadWorkspaces(cont) ==
    /\ initPc' = IF cont = "init" THEN "get_monitored_pipelines" ELSE initPc
    /\ saveAuthBtn' = IF cont = "saveCredentials" THEN ButtonIdle ELSE saveAuthBtn

\* get_workspaces resolves: populateWorkspaceSelect
GetWorkspacesResolve ==
    /\ \E call \in BagToSet(fetchCalls) :
         /\ call.cmd = "get_workspaces"
         /\ fetchCalls' = fetchCalls (-) SetToBag({call})
         /\ ResumeAfterLoadWorkspaces(call.cont)
    /\ workspaces' = RemoteWorkspaces
    /\ workspaceSelect' = populateWorkspaceSelect(RemoteWorkspaces)
    /\ UNCHANGED <<currentUsername, currentAppPassword, usernameInput,
                   appPasswordInput, authStatus, credCalls, storedUsername,
                   storedPassword, projects, repositories, currentWorkspace,
                   projectSelect, repoSelect, addPipelineBtnDisabled, returnedEarly,
                   pipeVars, settingsVars, statusVars, notification>>

\* get_workspaces rejects: the error is shown in the auth status
GetWorkspacesReject ==
    /\ \E call \in BagToSet(fetchCalls) :
         /\ call.cmd = "get_workspaces"
         /\ fetchCalls' = fetchCalls (-) SetToBag({call})
         /\ ResumeAfterLoadWorkspaces(call.cont)
    /\ authStatus' = showAuthStatus("Failed to load workspaces", "error")
    /\ UNCHANGED <<currentUsername, currentAppPassword, usernameInput,
                   appPasswordInput, credCalls, storedUsername, storedPassword,
                   workspaces, projects, repositories, currentWorkspace,
                   workspaceSelect, projectSelect, repoSelect, addPipelineBtnDisabled,
                   returnedEarly, pipeVars, settingsVars, statusVars, notification>>

\* get_projects resolves: populateProjectSelect
GetProjectsResolve ==
    /\ \E call \in BagToSet(fetchCalls) :
         /\ call.cmd = "get_projects"
         /\ fetchCalls' = fetchCalls (-) SetToBag({call})
         /\ projects' = RemoteProjects(call.workspace)
         /\ projectSelect' = populateProjectSelect(RemoteProjects(call.workspace))
    /\ UNCHANGED <<credVars, workspaces, repositories, currentWorkspace,
                   workspaceSelect, repoSelect, addPipelineBtnDisabled, returnedEarly,
                   pipeVars, settingsVars, statusVars, notification, initPc>>

\* get_projects rejects
GetProjectsReject ==
    /\ \E call \in BagToSet(fetchCalls) :
         /\ call.cmd = "get_projects"
         /\ fetchCalls' = fetchCalls (-) SetToBag({call})
    /\ projectSelect' = ResetSelect(projectSelect, "Error loading projects")
    /\ UNCHANGED <<credVars, workspaces, projects, repositories, currentWorkspace,
                   workspaceSelect, repoSelect, addPipelineBtnDisabled, returnedEarly,
                   pipeVars, settingsVars, statusVars, notification, initPc>>

\* get_repositories_by_project or get_repositories resolves: populateRepoSelect
GetRepositoriesResolve ==
    /\ \E call \in BagToSet(fetchCalls) :
         LET list == IF call.cmd = "get_repositories"
                     THEN RemoteWorkspaceRepositories(call.workspace)
                     ELSE RemoteRepositories(call.workspace, call.projectKey)
         IN  /\ call.cmd \in {"get_repositories_by_project", "get_repositories"}
             /\ fetchCalls' = fetchCalls (-) SetToBag({call})
             /\ repositories' = list
             /\ repoSelect' = populateRepoSelect(list)
    /\ UNCHANGED <<credVars, workspaces, projects, currentWorkspace, workspaceSelect,
                   projectSelect, addPipelineBtnDisabled, returnedEarly, pipeVars,
                   settingsVars, statusVars, notification, initPc>>

\* get_repositories_by_project or get_repositories rejects
GetRepositoriesReject ==
    /\ \E call \in BagToSet(fetchCalls) :
         /\ call.cmd \in {"get_repositories_by_project", "get_repositories"}
         /\ fetchCalls' = fetchCalls (-) SetToBag({call})
    /\ repoSelect' = ResetSelect(repoSelect, "Error loading repos")
    /\ UNCHANGED <<credVars, workspaces, projects, repositories, currentWorkspace,
                   workspaceSelect, projectSelect, addPipelineBtnDisabled, returnedEarly,
                   pipeVars, settingsVars, statusVars, notification, initPc>>

(***************************************************************************)
(* Monitored pipelines: loadMonitoredPipelines, addMonitoredPipeline,      *)
(* renderPipelineList and removePipeline.  Array indices are 1-based here. *)
(***************************************************************************)
\* null; like the empty string it is falsy, and the code never compares the two
NullText == ""

Pipeline(workspace, projectKey, projectName, repoSlug, repoName, branch) ==
    [workspace |-> workspace, project_key |-> projectKey, project_name |-> projectName,
     repo_slug |-> repoSlug, repo_name |-> repoName, branch |-> branch]

\* what addMonitoredPipeline reads from the three selects (lines 292-296): the
\* selected values and the texts of the selected options
Selection(workspace, project, repo) ==
    [workspace |-> workspace, projectKey |-> project.value, projectText |-> project.text,
     repoSlug |-> repo.value, repoText |-> repo.text]

\* the empty-valued first option of a select
FirstOption(text) == [value |-> "", text |-> text]

\* selections held by the selects when the Add button is clicked: a
\* repository of a project of either workspace, or no repository chosen yet
Selections ==
    {Selection("w1", ProjectOptions(RemoteProjects("w1"))[1],
               WorkspaceOptions(RemoteRepositories("w1", "PA"))[1]),
     Selection("w2", ProjectOptions(RemoteProjects("w2"))[1],
               WorkspaceOptions(RemoteRepositories("w2", "PB"))[1]),
     Selection("w1", ProjectOptions(RemoteProjects("w1"))[1],
               FirstOption("Select Repository"))}

\* the header a pipeline is listed under: project_name || workspace
GroupKey(p) == OrElse(p.project_name, p.workspace)

\* the keys of `grouped` in insertion order: Object.keys(grouped)
RECURSIVE GroupKeys(_)
GroupKeys(list) ==
    IF list = <<>> THEN <<>>
    ELSE LET rest == GroupKeys(SubSeq(list, 1, Len(list) - 1))
             key == GroupKey(list[Len(list)])
         IN  IF \E k \in 1..Len(rest) : rest[k] = key THEN rest ELSE Append(rest, key)

\* the <li class="pipeline-item"> elements of one group from index `from` on,
\* each with the pipeline it shows and the index its Remove button captured
RECURSIVE GroupItems(_, _, _)
GroupItems(list, key, from) ==
    IF from > Len(list) THEN <<>>
    ELSE (IF GroupKey(list[from]) = key
          THEN <<[kind |-> "item", pipeline |-> list[from], index |-> from,
                  text |-> OrElse(list[from].repo_name, list[from].repo_slug)]>>
          ELSE <<>>) \o GroupItems(list, key, from + 1)

RECURSIVE RenderGroups(_, _)
RenderGroups(list, keys) ==
    IF keys = <<>> THEN <<>>
    ELSE <<[kind |-> "header", text |-> Head(keys)]>>
         \o GroupItems(list, Head(keys), 1) \o RenderGroups(list, Tail(keys))

\* renderPipelineList(): the children of #pipeline-list
renderPipelineList(list) ==
    IF list = <<>>
    THEN <<[kind |-> "empty", text |-> "No pipelines monitored"]>>
    ELSE RenderGroups(list, GroupKeys(list))

\* a duplicate check that looks at the last entry only
AlreadyMonitoredLast(list, workspace, repoSlug) ==
    /\ list # <<>>
    /\ list[Len(list)].workspace = workspace
    /\ list[Len(list)].repo_slug = repoSlug

\* the duplicate check of addMonitoredPipeline (lines 304-306)
AlreadyMonitored(list, workspace, repoSlug) ==
    \E k \in 1..Len(list) : list[k].workspace = workspace /\ list[k].repo_slug = repoSlug

SaveCall(op, pipelines) == [op |-> op, pipelines |-> pipelines]

\* a test that lets a selection without a repository through
IncompleteSelectionRepoIgnored(sel) == sel.workspace = "" \/ sel.projectKey = ""

\* !workspace || !projectKey || !repoSlug (line 298)
IncompleteSelection(sel) ==
    sel.workspace = "" \/ sel.projectKey = "" \/ sel.repoSlug = ""

\* addMonitoredPipeline() up to its await, on selection sel
addMonitoredPipeline(sel) ==
    LET projectName == OrElse(sel.projectText, NullText)
        entry == Pipeline(sel.workspace, sel.projectKey, projectName,
                          sel.repoSlug, sel.repoText, NullText)
    IN  IF IncompleteSelection(sel)
        THEN /\ notification' = showNotification(
                    "Please select workspace, project, and repository", "error")
             /\ UNCHANGED <<monitoredPipelines, saveCalls>>
        ELSE IF AlreadyMonitored(monitoredPipelines, sel.workspace, sel.repoSlug)
        THEN /\ notification' = showNotification(
                    "This pipeline is already being monitored", "error")
             /\ UNCHANGED <<monitoredPipelines, saveCalls>>
        ELSE /\ BagCardinality(saveCalls) < MaxSaves
             /\ monitoredPipelines' = Append(monitoredPipelines, entry)
             /\ saveCalls' = saveCalls (+)
                    SetToBag({SaveCall("add", Append(monitoredPipelines, entry))})
             /\ UNCHANGED notification

\* click on #add-pipeline-btn while the selects hold sel
AddPipelineClickOn(sel) ==
    /\ initPc = "done"
    /\ addMonitoredPipeline(sel)
    /\ UNCHANGED <<credVars, selVars, pipelineList, persistedPipelines, settingsVars,
                   statusVars, initPc>>

AddPipelineClick == \E sel \in Selections : AddPipelineClickOn(sel)

\* monitoredPipelines.pop()
Pop(list) == IF list = <<>> THEN list ELSE SubSeq(list, 1, Len(list) - 1)

\* save_monitored_pipelines of an add resolves: the list is rendered and the
\* repository select reset
AddSaveResolve ==
    /\ \E call \in BagToSet(saveCalls) :
         /\ call.op = "add"
         /\ persistedPipelines' = call.pipelines
         /\ saveCalls' = saveCalls (-) SetToBag({call})
    /\ pipelineList' = renderPipelineList(monitoredPipelines)
    /\ notification' = showNotification("Pipeline added!", "success")
    /\ repoSelect' = [repoSelect EXCEPT !.value = ""]
    /\ addPipelineBtnDisabled' = TRUE
    /\ UNCHANGED <<credVars, workspaces, projects, repositories, currentWorkspace,
                   workspaceSelect, projectSelect, fetchCalls, returnedEarly,
                   monitoredPipelines, settingsVars, statusVars, initPc>>

\* save_monitored_pipelines of an add rejects: the catch branch pops
AddSaveReject ==
    /\ \E call \in BagToSet(saveCalls) :
         /\ call.op = "add"
         /\ saveCalls' = saveCalls (-) SetToBag({call})
    /\ notification' = showNotification("Failed to save", "error")
    /\ monitoredPipelines' = Pop(monitoredPipelines)
    /\ UNCHANGED <<credVars, selVars, pipelineList, persistedPipelines, settingsVars,
                   statusVars, initPc>>

\* removePipeline(index) up to its await: splice(index, 1), then the invoke
removePipeline(index) ==
    /\ BagCardinality(saveCalls) < MaxSaves
    /\ monitoredPipelines' = RemoveAt(monitoredPipelines, index)
    /\ saveCalls' = saveCalls (+)
           SetToBag({SaveCall("remove", RemoveAt(monitoredPipelines, index))})

\* click on the Remove button of the k-th child of #pipeline-list, with the
\* index that button captured when it was rendered
RemoveClickAt(k) ==
    /\ pipelineList[k].kind = "item"
    /\ removePipeline(pipelineList[k].index)
    /\ UNCHANGED <<credVars, selVars, pipelineList, persistedPipelines, settingsVars,
                   statusVars, notification, initPc>>

RemoveClick == \E k \in 1..Len(pipelineList) : RemoveClickAt(k)

\* save_monitored_pipelines of a removal resolves
RemoveSaveResolve ==
    /\ \E call \in BagToSet(saveCalls) :
         /\ call.op = "remove"
         /\ persistedPipelines' = call.pipelines
         /\ saveCalls' = saveCalls (-) SetToBag({call})
    /\ pipelineList' = renderPipelineList(monitoredPipelines)
    /\ notification' = showNotification("Pipeline removed", "success")
    /\ UNCHANGED <<credVars, selVars, monitoredPipelines, settingsVars, statusVars,
                   initPc>>

\* save_monitored_pipelines of a removal rejects: only the notification
RemoveSaveReject ==
    /\ \E call \in BagToSet(saveCalls) :
         /\ call.op = "remove"
         /\ saveCalls' = saveCalls (-) SetToBag({call})
    /\ notification' = showNotification("Failed to remove", "error")
    /\ UNCHANGED <<credVars, selVars, monitoredPipelines, pipelineList,
                   persistedPipelines, settingsVars, statusVars, initPc>>

\* loadMonitoredPipelines after get_monitored_pipelines resolved
LoadMonitoredPipelinesResolve ==
    /\ initPc = "get_monitored_pipelines"
    /\ monitoredPipelines' = persistedPipelines
    /\ pipelineList' = renderPipelineList(persistedPipelines)
    /\ initPc' = "get_polling_interval"
    /\ UNCHANGED <<credVars, selVars, saveCalls, persistedPipelines, settingsVars,
                   statusVars, notification>>

\* loadMonitoredPipelines when get_monitored_pipelines rejected: logged only
LoadMonitoredPipelinesReject ==
    /\ initPc = "get_monitored_pipelines"
    /\ initPc' = "get_polling_interval"
    /\ UNCHANGED <<credVars, selVars, pipeVars, settingsVars, statusVars, notification>>

(***************************************************************************)
(* The change handlers of the three selects and the Add button reading     *)
(* the selects (setupEventListeners).                                      *)
(***************************************************************************)
\* the values of the options of a select after its first, empty-valued one
OptionValues(select) == {select.options[i].value : i \in 1..Len(select.options)}

\* select.options[select.selectedIndex]
SelectedOption(select) ==
    IF select.value = ""
    THEN FirstOption(select.placeholder)
    ELSE select.options[CHOOSE i \in 1..Len(select.options) :
                            select.options[i].value = select.value]

\* what addMonitoredPipeline reads from the selects as they are
CurrentSelection ==
    Selection(workspaceSelect.value, SelectedOption(projectSelect),
              SelectedOption(repoSelect))

\* 'change' on #workspace-select: the user picked another option, while
\* fewer than `pending` fetches are in flight
WorkspaceChangeWithin(pending) ==
    /\ initPc = "done"
    /\ ~workspaceSelect.disabled
    /\ \E v \in OptionValues(workspaceSelect) \cup {""} :
         /\ v # workspaceSelect.value
         /\ workspaceSelect' = [workspaceSelect EXCEPT !.value = v]
         /\ currentWorkspace' = v
         /\ IF v # ""
            THEN /\ BagCardinality(fetchCalls) < pending
                 /\ loadProjects(v)
                 /\ UNCHANGED addPipelineBtnDisabled
            ELSE /\ projectSelect' =
                      [ResetSelect(projectSelect, "Select Project") EXCEPT !.disabled = TRUE]
                 /\ repoSelect' =
                      [ResetSelect(repoSelect, "Select Repository") EXCEPT !.disabled = TRUE]
                 /\ addPipelineBtnDisabled' = TRUE
                 /\ UNCHANGED <<fetchCalls, returnedEarly>>
    /\ UNCHANGED <<credVars, workspaces, projects, repositories, pipeVars,
                   settingsVars, statusVars, notification, initPc>>

\* 'change' on #project-select
ProjectChangeWithin(pending) ==
    /\ initPc = "done"
    /\ ~projectSelect.disabled
    /\ \E k \in OptionValues(projectSelect) \cup {""} :
         /\ k # projectSelect.value
         /\ projectSelect' = [projectSelect EXCEPT !.value = k]
         /\ IF k # "" /\ currentWorkspace # ""
            THEN /\ BagCardinality(fetchCalls) < pending
                 /\ loadRepositoriesByProject(currentWorkspace, k)
                 /\ UNCHANGED addPipelineBtnDisabled
            ELSE /\ repoSelect' =
                      [ResetSelect(repoSelect, "Select Repository") EXCEPT !.disabled = TRUE]
                 /\ addPipelineBtnDisabled' = TRUE
                 /\ UNCHANGED <<fetchCalls, returnedEarly>>
    /\ UNCHANGED <<credVars, workspaces, projects, repositories, currentWorkspace,
                   workspaceSelect, pipeVars, settingsVars, statusVars, notification,
                   initPc>>

\* the user changes a selection while earlier fetches may still be pending
WorkspaceChange == WorkspaceChangeWithin(MaxSelectorFetch)
ProjectChange == ProjectChangeWithin(MaxSelectorFetch)

\* the user changes a selection once the fetches before it have returned
WorkspaceChangeSerial == WorkspaceChangeWithin(MaxFetch)
ProjectChangeSerial == ProjectChangeWithin(MaxFetch)

\* 'change' on #repo-select
RepoChange ==
    /\ initPc = "done"
    /\ ~repoSelect.disabled
    /\ \E r \in OptionValues(repoSelect) \cup {""} :
         /\ r # repoSelect.value
         /\ repoSelect' = [repoSelect EXCEPT !.value = r]
         /\ addPipelineBtnDisabled' = (r = "")
    /\ UNCHANGED <<credVars, workspaces, projects, repositories, currentWorkspace,
                   workspaceSelect, projectSelect, fetchCalls, returnedEarly, pipeVars,
                   settingsVars, statusVars, notification, initPc>>

\* click on #add-pipeline-btn, which a disabled button does not deliver
AddPipelineClickSelected ==
    /\ ~addPipelineBtnDisabled
    /\ Len(monitoredPipelines) < MaxMonitored
    /\ AddPipelineClickOn(CurrentSelection)

(***************************************************************************)
(* Initial states: the window as loaded, before the DOMContentLoaded       *)
(* handler has run, and the backend it will talk to.                       *)
(***************************************************************************)
InitWindow ==
    /\ currentUsername = <<>> /\ currentAppPassword = <<>>
    /\ workspaces = <<>> /\ projects = <<>> /\ repositories = <<>>
    /\ monitoredPipelines = <<>> /\ currentWorkspace = ""
    /\ usernameInput = <<>>
    /\ appPasswordInput = [value |-> <<>>, masked |-> FALSE]
    /\ authStatus = NoAuthStatus
    /\ saveAuthBtn = ButtonIdle
    /\ workspaceSelect = InitialSelect("Select Workspace")
    /\ projectSelect = InitialSelect("Select Project")
    /\ repoSelect = InitialSelect("Select Repository")
    /\ addPipelineBtnDisabled = TRUE
    /\ pipelineList = <<>>
    /\ pollingIntervalInput = <<>>
    /\ statusDetails = InitialDetails
    /\ statusIndicator = InitialIndicator
    /\ notification = NoNotification
    /\ initPc = "get_credentials"
    /\ statusResp = [kind |-> "pending", status |-> Null]
    /\ listening = FALSE
    /\ returnedEarly = "none"
    /\ credCalls = <<>> /\ fetchCalls = EmptyBag /\ saveCalls = EmptyBag /\ settingsCalls = <<>>
    /\ refreshSent = 0 /\ refreshHandled = 0

\* an engine that has not completed a tick yet
InitEngine ==
    /\ latestStatus = Null
    /\ events = <<>>
    /\ ticksInFlight = 0
    /\ manualPending = FALSE

\* polling intervals the backend may have stored
StoredIntervals == {30, 90}

\* the monitored list the backend has stored: duplicate-free by
\* (workspace, repo_slug, branch), two branches of one repository
StoredBranch(branch) == Pipeline("w2", "PB", "Beta", "r3", "Repo3", branch)
StoredList == <<StoredBranch("main"), StoredBranch("dev")>>

(***************************************************************************)
(* The polling-interval setting.                                           *)
(***************************************************************************)
InitSettings ==
    /\ InitWindow /\ InitEngine
    /\ engineConfigured = FALSE
    /\ storedUsername = <<>> /\ storedPassword = <<>>
    /\ persistedPipelines = <<>>
    /\ storedInterval \in StoredIntervals

NextSettings ==
    \/ GetCredentialsResolve
    \/ LoadMonitoredPipelinesResolve
    \/ LoadPollingIntervalResolve
    \/ LoadPollingIntervalReject
    \/ GetPipelineStatusesRead
    \/ LoadCurrentStatusResume
    \/ UserTypesInterval
    \/ saveSettings
    \/ SetPollingIntervalResolve
    \/ SetPollingIntervalReject
    \/ NotificationTimeout

SpecSettings == InitSettings /\ [][NextSettings]_vars

(***************************************************************************)
(* The status panel and the engine.                                        *)
(***************************************************************************)
InitStatus ==
    /\ InitWindow /\ InitEngine
    /\ engineConfigured \in BOOLEAN
    /\ storedUsername = <<>> /\ storedPassword = <<>>
    /\ persistedPipelines = <<>>
    /\ storedInterval = 30

NextStatus ==
    \/ GetCredentialsResolve
    \/ LoadMonitoredPipelinesResolve
    \/ LoadPollingIntervalResolve
    \/ GetPipelineStatusesRead
    \/ GetPipelineStatusesReject
    \/ LoadCurrentStatusResume
    \/ DeliverStatusEvent
    \/ RefreshClick
    \/ TriggerRefreshResolve
    \/ TriggerRefreshReject
    \/ TickStart
    \/ TriggerManualTick
    \/ ManualTickStart
    \/ TickFinish
    \/ ConfigurationChange

SpecStatus == InitStatus /\ [][NextStatus]_vars

\* what runs without the user: pending promises settle, emitted events are
\* delivered, the engine's timer fires and its ticks complete
FairStatus ==
    /\ WF_vars(GetCredentialsResolve)
    /\ WF_vars(LoadMonitoredPipelinesResolve)
    /\ WF_vars(LoadPollingIntervalResolve)
    /\ WF_vars(GetPipelineStatusesRead \/ GetPipelineStatusesReject)
    /\ WF_vars(LoadCurrentStatusResume)
    /\ WF_vars(DeliverStatusEvent)
    /\ WF_vars(TriggerManualTick \/ TriggerRefreshReject)
    /\ WF_vars(TriggerRefreshResolve)
    /\ WF_vars(TickStart)
    /\ WF_vars(ManualTickStart)
    /\ WF_vars(TickFinish)

LiveSpecStatus == InitStatus /\ [][NextStatus]_vars /\ FairStatus

(***************************************************************************)
(* Credentials and the loaders.                                            *)
(***************************************************************************)
\* what the backend has stored at start: nothing, a username without its
\* password, or both
StoredCredentials == {<<<<>>, <<>>>>, <<<<"u">>, <<>>>>, <<<<"u">>, <<"p">>>>}

InitCreds ==
    /\ InitWindow /\ InitEngine
    /\ engineConfigured = FALSE
    /\ \E c \in StoredCredentials : storedUsername = c[1] /\ storedPassword = c[2]
    /\ persistedPipelines = <<>>
    /\ storedInterval = 30

NextCreds ==
    \/ GetCredentialsResolve
    \/ LoadSavedCredentialsReject
    \/ GetAppPasswordResolve
    \/ GetWorkspacesResolve
    \/ GetWorkspacesReject
    \/ LoadMonitoredPipelinesResolve
    \/ LoadPollingIntervalResolve
    \/ GetPipelineStatusesRead
    \/ LoadCurrentStatusResume
    \/ UserTypesUsername
    \/ UserTypesPassword
    \/ saveCredentials
    \/ SaveCredentialsResolve
    \/ SaveCredentialsReject
    \/ LoadWorkspacesEntry
    \/ LoadProjectsEntry
    \/ LoadRepositoriesByProjectEntry
    \/ LoadRepositoriesEntry
    \/ GetProjectsResolve
    \/ GetProjectsReject
    \/ GetRepositoriesResolve
    \/ GetRepositoriesReject

SpecCreds == InitCreds /\ [][NextCreds]_vars

\* the credentials form alone: page load, typing, submit and the responses to
\* save_credentials and to the get_workspaces that follows it
NextSaveCredentials ==
    \/ GetCredentialsResolve
    \/ LoadSavedCredentialsReject
    \/ GetAppPasswordResolve
    \/ GetWorkspacesResolve
    \/ GetWorkspacesReject
    \/ LoadMonitoredPipelinesResolve
    \/ LoadPollingIntervalResolve
    \/ GetPipelineStatusesRead
    \/ LoadCurrentStatusResume
    \/ UserTypesUsername
    \/ UserTypesPassword
    \/ saveCredentials
    \/ SaveCredentialsResolve
    \/ SaveCredentialsReject

SpecSaveCredentials == InitCreds /\ [][NextSaveCredentials]_vars

(***************************************************************************)
(* The monitored-pipeline list.                                            *)
(***************************************************************************)
InitPipelines ==
    /\ InitWindow /\ InitEngine
    /\ engineConfigured = FALSE
    /\ storedUsername = <<>> /\ storedPassword = <<>>
    /\ persistedPipelines = StoredList
    /\ storedInterval = 30

NextPipelines ==
    \/ GetCredentialsResolve
    \/ LoadMonitoredPipelinesResolve
    \/ LoadMonitoredPipelinesReject
    \/ LoadPollingIntervalResolve
    \/ GetPipelineStatusesRead
    \/ LoadCurrentStatusResume
    \/ AddPipelineClick
    \/ AddSaveResolve
    \/ AddSaveReject
    \/ RemoveClick
    \/ RemoveSaveResolve
    \/ RemoveSaveReject
    \/ NotificationTimeout

SpecPipelines == InitPipelines /\ [][NextPipelines]_vars

(***************************************************************************)
(* The cascading selectors feeding the Add button.                         *)
(***************************************************************************)
InitSelectors ==
    /\ InitWindow /\ InitEngine
    /\ engineConfigured = FALSE
    /\ storedUsername = <<"u">> /\ storedPassword = <<"p">>
    /\ persistedPipelines = <<>>
    /\ storedInterval = 30

NextSelectors ==
    \/ GetCredentialsResolve
    \/ GetAppPasswordResolve
    \/ GetWorkspacesResolve
    \/ GetWorkspacesReject
    \/ LoadMonitoredPipelinesResolve
    \/ LoadPollingIntervalResolve
    \/ GetPipelineStatusesRead
    \/ LoadCurrentStatusResume
    \/ WorkspaceChange
    \/ ProjectChange
    \/ RepoChange
    \/ GetProjectsResolve
    \/ GetProjectsReject
    \/ GetRepositoriesResolve
    \/ GetRepositoriesReject
    \/ AddPipelineClickSelected
    \/ AddSaveResolve

SpecSelectors == InitSelectors /\ [][NextSelectors]_vars

\* the selects driven one fetch at a time, and the Add button
NextAddButton ==
    \/ GetCredentialsResolve
    \/ GetAppPasswordResolve
    \/ GetWorkspacesResolve
    \/ LoadMonitoredPipelinesResolve
    \/ LoadPollingIntervalResolve
    \/ GetPipelineStatusesRead
    \/ LoadCurrentStatusResume
    \/ WorkspaceChangeSerial
    \/ ProjectChangeSerial
    \/ RepoChange
    \/ GetProjectsResolve
    \/ GetRepositoriesResolve
    \/ AddPipelineClickSelected

SpecAddButton == InitSelectors /\ [][NextAddButton]_vars

(***************************************************************************)
(* Properties of the monitored-pipeline list (SpecPipelines).              *)
(***************************************************************************)
\* no two entries of list agree on (workspace, repo_slug, branch)
NoDuplicates(list) ==
    \A i, j \in 1..Len(list) :
        (/\ list[i].workspace = list[j].workspace
         /\ list[i].repo_slug = list[j].repo_slug
         /\ list[i].branch = list[j].branch) => i = j

\* some entry of monitoredPipelines has the workspace and repository of sel
SelectionPresent(sel) ==
    \E k \in 1..Len(monitoredPipelines) :
        /\ monitoredPipelines[k].workspace = sel.workspace
        /\ monitoredPipelines[k].repo_slug = sel.repoSlug

\* C1: monitoredPipelines never holds two entries with the same (workspace,
\* repo_slug, branch), whatever the interleaving of adds, removals and save
\* outcomes; an add whose (workspace, repo_slug) is already present shows an
\* error notification, changes nothing and invokes no save.
C1_UniqueAndDuplicateRejected ==
    /\ [](NoDuplicates(monitoredPipelines))
    /\ [][\A sel \in Selections :
            (AddPipelineClickOn(sel) /\ SelectionPresent(sel))
              => /\ notification'.type = "error"
                 /\ saveCalls' = saveCalls
                 /\ monitoredPipelines' = monitoredPipelines]_vars

\* a duplicate add was rejected while a save was still pending
C1_Witness ==
    /\ notification = showNotification("This pipeline is already being monitored", "error")
    /\ Len(monitoredPipelines) >= 3
    /\ saveCalls # EmptyBag

\* list without the entries equal to e
Without(list, e) == SelectSeq(list, LAMBDA x : x # e)

\* the entry an add pushed: the last one of the list it sent to be saved
PushedBy(call) == call.pipelines[Len(call.pipelines)]

\* C9: when the save of an add fails, the rollback removes from
\* monitoredPipelines the entry that add pushed and keeps every other entry,
\* also when other adds or removals started while the save was pending.
C9_RollbackRemovesPushedEntry ==
    [][\A call \in BagToSet(saveCalls) :
          (/\ call.op = "add"
           /\ AddSaveReject
           /\ saveCalls' = saveCalls (-) SetToBag({call}))
            => monitoredPipelines' = Without(monitoredPipelines, PushedBy(call))]_vars

\* C10: a click on the Remove button rendered next to a pipeline P that is
\* still monitored removes exactly P from monitoredPipelines and nothing else.
C10_RemoveButtonRemovesItsPipeline ==
    [][\A k \in 1..Len(pipelineList) :
          (/\ RemoveClickAt(k)
           /\ \E i \in 1..Len(monitoredPipelines) :
                 monitoredPipelines[i] = pipelineList[k].pipeline)
            => monitoredPipelines' =
                  Without(monitoredPipelines, pipelineList[k].pipeline)]_vars

\* C11: once loadMonitoredPipelines has returned and no
\* save_monitored_pipelines invocation is in flight, monitoredPipelines is the
\* list the backend accepted last and #pipeline-list shows exactly the
\* entries of monitoredPipelines.
C11_MemoryUiAndStoreAgree ==
    (initPc = "done" /\ saveCalls = EmptyBag)
      => /\ monitoredPipelines = persistedPipelines
         /\ pipelineList = renderPipelineList(monitoredPipelines)

(***************************************************************************)
(* Properties of the cascading selectors (SpecSelectors).                  *)
(***************************************************************************)
\* the select has been filled by its populate function
Populated(select) == ~select.disabled /\ select.placeholder # "Loading..."

\* pipeline p names a repository the remote API lists for its workspace and
\* project
FetchedForItsProject(p) ==
    \E i \in 1..Len(RemoteRepositories(p.workspace, p.project_key)) :
        RemoteRepositories(p.workspace, p.project_key)[i].slug = p.repo_slug

\* C12: a populated project select offers the projects of the selected
\* workspace, a populated repository select the repositories of the selected
\* workspace and project, whatever the order in which pending get_projects /
\* get_repositories_by_project calls resolve; so every monitored entry names
\* a repository fetched for its workspace and project_key.
C12_SelectorsFollowSelection ==
    /\ (initPc = "done" /\ Populated(projectSelect))
          => projectSelect.options
               = ProjectOptions(RemoteProjects(workspaceSelect.value))
    /\ (initPc = "done" /\ Populated(repoSelect))
          => repoSelect.options
               = WorkspaceOptions(RemoteRepositories(workspaceSelect.value,
                                                     projectSelect.value))
    /\ \A i \in 1..Len(monitoredPipelines) :
          FetchedForItsProject(monitoredPipelines[i])

\* the three identifying fields of pipeline p are non-empty
FullyIdentified(p) == p.workspace # "" /\ p.project_key # "" /\ p.repo_slug # ""

\* C13: every entry of monitoredPipelines, and of every list sent to
\* save_monitored_pipelines, has a non-empty workspace, project_key and
\* repo_slug; a click on the Add button while one of the selects has no value
\* appends and sends nothing.
C13_AppendedEntriesIdentified ==
    /\ [](/\ \A i \in 1..Len(monitoredPipelines) :
                FullyIdentified(monitoredPipelines[i])
          /\ \A call \in BagToSet(saveCalls) :
                \A i \in 1..Len(call.pipelines) : FullyIdentified(call.pipelines[i]))
    /\ [][(/\ AddPipelineClickSelected
           /\ \/ workspaceSelect.value = ""
              \/ projectSelect.value = ""
              \/ repoSelect.value = "")
            => /\ monitoredPipelines' = monitoredPipelines
               /\ saveCalls' = saveCalls]_vars

\* the Add button, still enabled over a reset repository select, was clicked
\* and refused; a later click appended an entry whose save is pending
C13_Witness ==
    /\ notification = showNotification(
            "Please select workspace, project, and repository", "error")
    /\ Len(monitoredPipelines) = 1
    /\ saveCalls # EmptyBag

(***************************************************************************)
(* Properties of the polling-interval setting (SpecSettings).              *)
(***************************************************************************)
\* text is a decimal numeral
IsNumeral(text) == text # <<>> /\ \A i \in 1..Len(text) : text[i] \in Digits

\* the number a numeral denotes
RECURSIVE NumeralValue(_)
NumeralValue(text) ==
    IF text = <<>> THEN 0
    ELSE 10 * NumeralValue(SubSeq(text, 1, Len(text) - 1)) + DigitVal(text[Len(text)])

\* content of the interval field that must be refused: a number below the
\* floor, nothing at all, or text without any digit
RefusedIntervalText(text) ==
    \/ text = <<>>
    \/ IsNumeral(text) /\ NumeralValue(text) < MinPollingInterval
    \/ \A i \in 1..Len(text) : text[i] \notin Digits

\* C2: set_polling_interval is only ever invoked with an integer of at least
\* 30 seconds; when the interval field holds a smaller number, nothing, or
\* non-numeric text, saveSettings shows an error notification and invokes
\* nothing.
C2_OnlyValidIntervalsInvoked ==
    /\ [](\A i \in 1..Len(settingsCalls) :
             ~settingsCalls[i].nan /\ settingsCalls[i].n >= MinPollingInterval)
    /\ [][(saveSettings /\ RefusedIntervalText(pollingIntervalInput))
            => /\ notification'.type = "error"
               /\ settingsCalls' = settingsCalls]_vars

(***************************************************************************)
(* Properties of the status panel (SpecStatus, LiveSpecStatus).            *)
(***************************************************************************)
\* C3: at most one tick is in flight at any instant, however many
\* trigger_refresh invocations the Refresh button has started and not yet
\* seen resolved.
C3_AtMostOneTickInFlight == ticksInFlight <= 1

\* Refresh was clicked again while the first trigger_refresh was unresolved,
\* and the second request met a tick in flight
C3_Witness ==
    /\ refreshSent + refreshHandled = 2
    /\ refreshHandled >= 1
    /\ ticksInFlight = 1
    /\ manualPending

\* the panel shows an aggregate
ShowsAggregate == statusDetails.kind \in {"healthy", "failed"}

\* C4: once an aggregate has been received, a panel put on the
\* 'Refreshing...' placeholder by the Refresh button shows an aggregate again,
\* also when the triggered tick publishes nothing.
C4_PlaceholderGivesWayToAggregate ==
    (statusDetails = RefreshingDetails
        /\ statusIndicator \in {"status-green", "status-red"}) ~> ShowsAggregate

\* C5: once initialisation has finished and no event is in flight, the panel
\* reflects the snapshot the engine published last (unless the Refresh
\* placeholder covers it or the initial read failed).
C5_PanelReflectsLatestSnapshot ==
    (/\ initPc = "done"
     /\ events = <<>>
     /\ statusResp.kind = "value"
     /\ statusDetails # RefreshingDetails
     /\ latestStatus # Null)
      => /\ statusDetails = updateStatusDisplay(latestStatus).details
         /\ statusIndicator = updateStatusDisplay(latestStatus).indicator

\* the step passes snapshot s to updateStatusDisplay
PassedToDisplay(s) ==
    \/ DeliverStatusEvent /\ Head(events) = s
    \/ LoadCurrentStatusResume /\ statusResp.kind = "value" /\ statusResp.status = s

\* the text a failed pipeline is listed with
ShownAs(p) == <<IF p.repo_name # "" THEN p.repo_name ELSE p.repo_slug, p.failure_reason>>

\* the number of positions of seq that hold x
Occurrences(seq, x) == Cardinality({i \in 1..Len(seq) : seq[i] = x})

\* the panel lists the entries of failed, each as often as it occurs in it
ListsExactly(failed) ==
    /\ statusDetails.kind = "failed"
    /\ Len(statusDetails.items) = Len(failed)
    /\ \A i \in 1..Len(failed) :
          Occurrences(statusDetails.items, ShownAs(failed[i]))
            = Cardinality({j \in 1..Len(failed) : ShownAs(failed[j]) = ShownAs(failed[i])})

\* C6: after a snapshot is passed to updateStatusDisplay the indicator is
\* green iff is_healthy and red iff not (never gray); when red the panel
\* lists exactly the failed pipelines and shows their number, when green it
\* lists no failed pipeline.
C6_IndicatorAndFailedList ==
    [][\A s \in Snapshots :
          PassedToDisplay(s)
            => /\ (statusIndicator' = "status-green") <=> s.is_healthy
               /\ (statusIndicator' = "status-red") <=> ~s.is_healthy
               /\ statusIndicator' = "status-red"
                    => (ListsExactly(s.failed_pipelines))'
                       /\ statusDetails'.count = Len(s.failed_pipelines)
               /\ statusIndicator' = "status-green"
                    => statusDetails'.kind = "healthy"]_vars

\* a red indicator over a list of two failed pipelines
C6_Witness ==
    /\ statusIndicator = "status-red"
    /\ statusDetails.kind = "failed"
    /\ statusDetails.count = 2
    /\ latestStatus # Null /\ ~latestStatus.is_healthy

\* C7: the failed list shown is the snapshot's failed_pipelines in the same
\* order, entry by entry, and the whole panel is determined by the snapshot
\* alone, whatever was displayed before.
C7_FailedListKeepsOrder ==
    [][\A s \in Snapshots :
          (PassedToDisplay(s) /\ ~s.is_healthy)
            => statusDetails' =
                 [kind |-> "failed",
                  count |-> Len(s.failed_pipelines),
                  items |-> [i \in 1..Len(s.failed_pipelines) |->
                                ShownAs(s.failed_pipelines[i])],
                  last_checked |-> s.last_checked]]_vars

\* the listener displayed a failed list in the snapshot's order, web before Api
C7_Witness ==
    /\ listening
    /\ statusDetails.kind = "failed"
    /\ statusDetails.items = <<ShownAs(FailedB), ShownAs(FailedA)>>
    /\ latestStatus # Null
    /\ latestStatus.failed_pipelines = <<FailedB, FailedA>>

(***************************************************************************)
(* Properties of the credentials and the loaders (SpecCreds).              *)
(***************************************************************************)
\* C8: while currentUsername or currentAppPassword is empty no get_workspaces,
\* get_projects or get_repositories* invocation is made and no loader shows an
\* error or a loading state; every such invocation carries both credentials.
C8_NoFetchWithoutCredentials ==
    /\ \A call \in BagToSet(fetchCalls) :
          call.username # <<>> /\ call.appPassword # <<>>
    /\ (currentUsername = <<>> \/ currentAppPassword = <<>>)
         => /\ fetchCalls = EmptyBag
            /\ authStatus.message # "Failed to load workspaces"
            /\ projectSelect = InitialSelect("Select Project")
            /\ repoSelect = InitialSelect("Select Repository")
            /\ workspaceSelect = InitialSelect("Select Workspace")

\* a loader of projects or repositories was entered with a username but no
\* password configured
C8_Witness ==
    /\ initPc = "done"
    /\ returnedEarly \in {"loadProjects", "loadRepositoriesByProject", "loadRepositories"}
    /\ currentUsername # <<>>
    /\ currentAppPassword = <<>>


\* the form is submitted with a field that is blank once trimmed
BlankSubmit ==
    saveCredentials /\ (Trim(usernameInput) = <<>> \/ Trim(appPasswordInput.value) = <<>>)

\* saveCredentials is between its first await and its finally block
SaveCredentialsRunning ==
    \/ credCalls # <<>>
    \/ \E call \in BagToSet(fetchCalls) : call.cont = "saveCredentials"

\* C14: once the page is loaded, currentUsername and currentAppPassword change
\* only in the step where a save_credentials invocation succeeds, and then to
\* the values that invocation stored; a submit with a blank field makes no
\* invocation and shows an error; a failed invocation shows an error and leaves
\* both variables as they were; and whenever saveCredentials is not running the
\* save button is enabled and out of its loading state.
C14_CredentialsSetOnlyAfterSave ==
    /\ [](~SaveCredentialsRunning => saveAuthBtn = ButtonIdle)
    /\ [][(initPc = "done"
             /\ <<currentUsername, currentAppPassword>>'
                  # <<currentUsername, currentAppPassword>>)
            => /\ credCalls # <<>>
               /\ credCalls' = Tail(credCalls)
               /\ currentUsername' = Head(credCalls).username
               /\ currentAppPassword' = Head(credCalls).appPassword
               /\ storedUsername' = currentUsername'
               /\ storedPassword' = currentAppPassword'
               /\ authStatus'.type = "success"]_vars
    /\ [][BlankSubmit
            => /\ credCalls' = credCalls
               /\ fetchCalls' = fetchCalls
               /\ authStatus'.type = "error"
               /\ <<currentUsername, currentAppPassword>>'
                    = <<currentUsername, currentAppPassword>>
               /\ saveAuthBtn' = ButtonIdle]_vars
    /\ [][SaveCredentialsReject
            => /\ authStatus' = showAuthStatus("Error", "error")
               /\ <<currentUsername, currentAppPassword>>'
                    = <<currentUsername, currentAppPassword>>
               /\ saveAuthBtn' = ButtonIdle]_vars

\* a save_credentials invocation has failed: the error is shown, the typed
\* username was not taken over and the button is back to normal
C14_Witness ==
    /\ authStatus = showAuthStatus("Error", "error")
    /\ Trim(usernameInput) # <<>>
    /\ currentUsername # Trim(usernameInput)
    /\ credCalls = <<>>
    /\ saveAuthBtn = ButtonIdle

=============================================================================
